---- MODULE Spec2Model ----
(***************************************************************************)
(* Model of examples/save_all_markdown.py: main() fetches the lifelogs and  *)
(* export_data() writes one markdown file per lifelog into the "export"    *)
(* directory, named from the lifelog's startTime in America/Chicago.       *)
(***************************************************************************)
EXTENDS Integers, Sequences, FiniteSets, TLC

(***************************************************************************)
(* Bound of the model: the longest lifelog list the record source returns. *)
(***************************************************************************)
MaxRecords == 3

(***************************************************************************)
(* Bound of the model: the longest list on which the program is run twice. *)
(***************************************************************************)
MaxRerun == 2

(***************************************************************************)
(* Dates and times.  A datetime is a record of its civil fields; an aware  *)
(* datetime also carries its UTC offset in minutes (field off).            *)
(***************************************************************************)
IsLeap(y) == (y % 4 = 0 /\ y % 100 /= 0) \/ y % 400 = 0

DaysInMonth(y, m) ==
    IF m = 2 THEN (IF IsLeap(y) THEN 29 ELSE 28)
    ELSE IF m \in {4, 6, 9, 11} THEN 30 ELSE 31

\* The civil date one day after / before [year, month, day].
NextDay(d) ==
    IF d.day < DaysInMonth(d.year, d.month)
    THEN [d EXCEPT !.day = d.day + 1]
    ELSE IF d.month < 12
         THEN [d EXCEPT !.month = d.month + 1, !.day = 1]
         ELSE [d EXCEPT !.year = d.year + 1, !.month = 1, !.day = 1]

PrevDay(d) ==
    IF d.day > 1
    THEN [d EXCEPT !.day = d.day - 1]
    ELSE IF d.month > 1
         THEN [d EXCEPT !.month = d.month - 1,
                        !.day = DaysInMonth(d.year, d.month - 1)]
         ELSE [d EXCEPT !.year = d.year - 1, !.month = 12, !.day = 31]

\* datetime + timedelta(minutes = k), for |k| of at most one day.
AddMinutes(d, k) ==
    LET total == d.hour * 60 + d.minute + k
        carry == total \div 1440
        rest  == total % 1440
        moved == IF carry > 0 THEN NextDay(d)
                 ELSE IF carry < 0 THEN PrevDay(d) ELSE d
    IN  [moved EXCEPT !.hour = rest \div 60, !.minute = rest % 60]

\* Day of the week of a civil date, 0 = Sunday (Sakamoto's method).
DayOfWeek(y, m, d) ==
    LET t  == <<0, 3, 2, 5, 0, 3, 5, 1, 4, 6, 2, 4>>
        yy == IF m < 3 THEN y - 1 ELSE y
    IN  (yy + yy \div 4 - yy \div 100 + yy \div 400 + t[m] + d) % 7

\* The fields of a datetime in a comparable order (UTC datetimes only).
Before(a, b) ==
    LET ka == <<a.year, a.month, a.day, a.hour, a.minute, a.second>>
        kb == <<b.year, b.month, b.day, b.hour, b.minute, b.second>>
    IN  \E k \in 1..6 : /\ ka[k] < kb[k]
                        /\ \A j \in 1..(k - 1) : ka[j] = kb[j]

\* pytz's America/Chicago: UTC-6, and UTC-5 from the second Sunday of March
\* 08:00 UTC until the first Sunday of November 07:00 UTC (rules since 2007).
ChicagoOffset(utc) ==
    LET y      == utc.year
        marDay == CHOOSE d \in 8..14 : DayOfWeek(y, 3, d) = 0
        novDay == CHOOSE d \in 1..7 : DayOfWeek(y, 11, d) = 0
        start  == [year |-> y, month |-> 3, day |-> marDay,
                   hour |-> 8, minute |-> 0, second |-> 0]
        end    == [year |-> y, month |-> 11, day |-> novDay,
                   hour |-> 7, minute |-> 0, second |-> 0]
    IN  IF ~Before(utc, start) /\ Before(utc, end) THEN -300 ELSE -360

Civil(d) == [year |-> d.year, month |-> d.month, day |-> d.day,
             hour |-> d.hour, minute |-> d.minute, second |-> d.second]

\* The text of a startTime: text is the string itself, iso says whether it
\* has the shape YYYY-MM-DDTHH:MM:SS+HH:MM, and the other fields are the
\* numbers that shape spells (off is the UTC offset in minutes).
TimeText(text, iso, y, mo, d, h, mi, s, off) ==
    [text |-> text, iso |-> iso, year |-> y, month |-> mo, day |-> d,
     hour |-> h, minute |-> mi, second |-> s, off |-> off]
NoneValue == TimeText("None", FALSE, 0, 0, 0, 0, 0, 0, 0)

\* datetime.fromisoformat: an aware datetime, or ValueError for a text of
\* another shape or with a field out of range.
ValueError == [Civil(NoneValue) EXCEPT !.year = -1] @@ [off |-> 0]
fromisoformat(s) ==
    IF /\ s.iso
       /\ s.year \in 1..9999
       /\ s.month \in 1..12
       /\ s.day \in 1..DaysInMonth(s.year, s.month)
       /\ s.hour \in 0..23 /\ s.minute \in 0..59 /\ s.second \in 0..59
    THEN Civil(s) @@ [off |-> s.off]
    ELSE ValueError

\* A plausible slip: the datetime is formatted without being converted.
astimezoneSkipped(d) == d

\* aware_datetime.astimezone(chicago_tz): the same instant, Chicago fields.
astimezone(d) ==
    LET utc == AddMinutes(Civil(d), 0 - d.off)
        off == ChicagoOffset(utc)
    IN  AddMinutes(utc, off) @@ [off |-> off]

\* strftime("%Y-%m-%d-%H-%M-%S")
Pad2(n) == IF n < 10 THEN "0" \o ToString(n) ELSE ToString(n)
\* (years below 1000 are not among the inputs; their padding depends on the C library)
Pad4(n) == IF n < 10 THEN "000" \o ToString(n)
           ELSE IF n < 100 THEN "00" \o ToString(n)
           ELSE IF n < 1000 THEN "0" \o ToString(n) ELSE ToString(n)
strftime(d) ==
    Pad4(d.year) \o "-" \o Pad2(d.month) \o "-" \o Pad2(d.day) \o "-" \o
    Pad2(d.hour) \o "-" \o Pad2(d.minute) \o "-" \o Pad2(d.second)

(***************************************************************************)
(* Lifelogs: the mappings the record source returns.  keys is the set of   *)
(* keys the mapping holds; a field whose key is missing is never read.     *)
(***************************************************************************)
Lifelog(keys, startTime, markdown) ==
    [keys |-> keys, startTime |-> startTime, markdown |-> markdown]

TimeA    == TimeText("2025-03-18T15:41:44-05:00", TRUE, 2025, 3, 18, 15, 41, 44, -300)
TimeB    == TimeText("2025-03-18T20:41:44+00:00", TRUE, 2025, 3, 18, 20, 41, 44, 0)
TimeC    == TimeText("2025-01-01T03:00:00+00:00", TRUE, 2025, 1, 1, 3, 0, 0, 0)
BadMonth == TimeText("2025-13-01T00:00:00+00:00", TRUE, 2025, 13, 1, 0, 0, 0, 0)
NotADate == TimeText("not-a-date", FALSE, 0, 0, 0, 0, 0, 0, 0)
EmptyText == TimeText("", FALSE, 0, 0, 0, 0, 0, 0, 0)

\* The lifelogs the model draws its lists from.
Lifelogs ==
    { Lifelog({"startTime", "markdown"}, TimeA, "Hello"),
      Lifelog({"markdown"}, NoneValue, "No time"),
      Lifelog({"startTime", "markdown"}, NotADate, "Hello"),
      Lifelog({"startTime"}, TimeB, ""),
      Lifelog({"startTime", "markdown"}, TimeC, "World"),
      Lifelog({"startTime", "markdown"}, EmptyText, "Hello"),
      Lifelog({"startTime", "markdown"}, BadMonth, "Hello"),
      Lifelog({}, NoneValue, "") }

LifelogLists == UNION { [1..n -> Lifelogs] : n \in 0..MaxRecords }

\* The wall clock's readings, as UTC datetimes one second apart.
Clocks ==
    << [year |-> 2025, month |-> 1, day |-> 1, hour |-> 3, minute |-> 0, second |-> 0],
       [year |-> 2025, month |-> 1, day |-> 1, hour |-> 3, minute |-> 0, second |-> 1] >>

\* lifelog.get("startTime") and lifelog.get("markdown", "")
GetStartTime(lifelog) ==
    IF "startTime" \in lifelog.keys THEN lifelog.startTime ELSE NoneValue
GetMarkdown(lifelog) ==
    IF "markdown" \in lifelog.keys THEN lifelog.markdown ELSE ""

\* "if timestamp_str:" -- None and the empty string are false.
Truthy(ts) == ts /= NoneValue /\ ts.text /= ""

\* start_time.astimezone(chicago_tz).strftime(...) + ".md"
TimestampFileName(start_time) == strftime(astimezone(start_time)) \o ".md"

\* Plausible slips: the fallback name without the index; the fallback name
\* from the current time without the conversion to America/Chicago.
FallbackFileNameNoIndex(now, idx) ==
    strftime(astimezone(now @@ [off |-> 0])) \o ".md"
FallbackFileNameUtc(now, idx) ==
    strftime(now) \o "-" \o ToString(idx) \o ".md"

\* datetime.now().astimezone(chicago_tz).strftime(...) + f"-{i}.md"
FallbackFileName(now, idx) ==
    strftime(astimezone(now @@ [off |-> 0])) \o "-" \o ToString(idx) \o ".md"

(***************************************************************************)
(* The export directory: a function from file names to file contents.      *)
(***************************************************************************)
NoFiles == [n \in {} |-> ""]
\* A plausible slip: the file is opened in append mode.
PutAppending(files, name, content) ==
    [n \in DOMAIN files \cup {name} |->
        IF n = name
        THEN (IF n \in DOMAIN files THEN files[n] \o content ELSE content)
        ELSE files[n]]

Put(files, name, content) ==
    [n \in DOMAIN files \cup {name} |-> IF n = name THEN content ELSE files[n]]

\* The outcomes of "with open(filepath, 'w') as f: f.write(content)": the
\* write completes, open raises OSError (the directory is left as it was), or
\* writing raises OSError after open created or truncated the file.
WriteOutcomes == {"ok", "open_fails", "write_fails"}
WriteFile(files, name, content, outcome) ==
    IF outcome = "ok" THEN Put(files, name, content)
    ELSE IF outcome = "write_fails" THEN Put(files, name, "")
    ELSE files

\* A line of the console.
Line(kind, idx, total, text) ==
    [kind |-> kind, i |-> idx, n |-> total, text |-> text]

\* The failures of the record source (authentication, transport).
FetchErrors == {"AuthenticationError", "TransportError"}

VARIABLES
    pc,        \* where the run is: "main", "export", "loop", "done", "aborted"
    lifelogs,  \* the list export_data was given
    i,         \* the 1-based position of the loop of export_data
    exists,    \* whether the export directory exists
    fs,        \* the files of the export directory
    out,       \* the console lines of the run
    clock,     \* the wall clock, an index into Clocks
    error,     \* the exception that ended the run, "" when none
    run,       \* 1 for the first run of the program, 2 for a second one
    logs1,     \* the list of the first run, once a second run has started
    fs1,       \* the export directory as the first run left it
    moved      \* whether the second run has another working directory

vars == <<pc, lifelogs, i, exists, fs, out, clock, error, run, logs1, fs1, moved>>

Init ==
    /\ pc = "main"
    /\ lifelogs = <<>>
    /\ i = 0
    /\ exists = FALSE
    /\ fs = NoFiles
    /\ out = <<>>
    /\ clock = 1
    /\ error = ""
    /\ run = 1
    /\ logs1 = <<>>
    /\ fs1 = NoFiles
    /\ moved = FALSE

\* main, lines 93-100: get_lifelogs returns the list.
Fetch ==
    /\ pc = "main"
    /\ \E l \in LifelogLists : lifelogs' = l
    /\ pc' = "export"
    /\ out' = Append(out, Line("Fetching", 0, 0, ""))
    /\ UNCHANGED <<i, exists, fs, clock, error, run, logs1, fs1, moved>>

\* A plausible slip: main swallows the failure and exports an empty list.
FetchFailsSwallowed ==
    /\ pc = "main"
    /\ \E e \in FetchErrors : error' = e
    /\ lifelogs' = <<>>
    /\ pc' = "export"
    /\ out' = Append(out, Line("Fetching", 0, 0, ""))
    /\ UNCHANGED <<i, exists, fs, clock, run, logs1, fs1, moved>>

\* main, lines 93-100: get_lifelogs raises; nothing in main catches it.
FetchFails ==
    /\ pc = "main"
    /\ \E e \in FetchErrors : error' = e
    /\ pc' = "aborted"
    /\ out' = Append(out, Line("Fetching", 0, 0, ""))
    /\ UNCHANGED <<lifelogs, i, exists, fs, clock, run, logs1, fs1, moved>>

\* The debug lines: the keys of the first lifelog and the first three lifelogs.
DebugLines(logs) ==
    IF logs = <<>> THEN <<>>
    ELSE <<Line("FirstKeys", 1, Len(logs), "")>> \o
         [k \in 1..(IF Len(logs) < 3 THEN Len(logs) ELSE 3) |->
             Line("Structure", k, Len(logs), GetMarkdown(logs[k]))]

\* A plausible slip: the loop starts at the second lifelog.
EnterExportSkipsFirst ==
    /\ pc = "export"
    /\ exists' = TRUE
    /\ out' = out \o <<Line("Exporting", 0, Len(lifelogs), "export")>>
                  \o DebugLines(lifelogs)
    /\ i' = IF lifelogs = <<>> THEN 1 ELSE 2
    /\ pc' = "loop"
    /\ UNCHANGED <<lifelogs, fs, clock, error, run, logs1, fs1, moved>>

\* export_data, lines 36-48: the directory is created, the header printed.
EnterExport ==
    /\ pc = "export"
    /\ exists' = TRUE
    /\ out' = out \o <<Line("Exporting", 0, Len(lifelogs), "export")>>
                  \o DebugLines(lifelogs)
    /\ i' = 1
    /\ pc' = "loop"
    /\ UNCHANGED <<lifelogs, fs, clock, error, run, logs1, fs1, moved>>

InLoop == pc = "loop" /\ i \in 1..Len(lifelogs)

\* Whether the startTime of a lifelog is there and parses (lines 55-58).
Parses(lifelog) ==
    /\ Truthy(GetStartTime(lifelog))
    /\ fromisoformat(GetStartTime(lifelog)) /= ValueError

\* Lines 55-72: a startTime that parses names the file, which is written.
ExportTimestamped ==
    /\ InLoop
    /\ Parses(lifelogs[i])
    /\ LET filename == TimestampFileName(fromisoformat(GetStartTime(lifelogs[i])))
       IN  /\ fs' = WriteFile(fs, filename, GetMarkdown(lifelogs[i]), "ok")
           /\ out' = Append(out, Line("Exported", i, Len(lifelogs), filename))
    /\ i' = i + 1
    /\ UNCHANGED <<pc, lifelogs, exists, clock, error, run, logs1, fs1, moved>>

\* Lines 69-70 and 73-74: the write raises OSError inside the try block;
\* "except Exception" catches it and the loop goes on.
ExportTimestampedFails ==
    /\ InLoop
    /\ Parses(lifelogs[i])
    /\ LET filename == TimestampFileName(fromisoformat(GetStartTime(lifelogs[i])))
       IN  \E outcome \in WriteOutcomes \ {"ok"} :
             fs' = WriteFile(fs, filename, GetMarkdown(lifelogs[i]), outcome)
    /\ out' = Append(out, Line("Error", i, Len(lifelogs), "OSError"))
    /\ i' = i + 1
    /\ UNCHANGED <<pc, lifelogs, exists, clock, error, run, logs1, fs1, moved>>

\* A plausible slip: the ValueError is not caught and ends the run.
ExportUnparseableRaises ==
    /\ InLoop
    /\ Truthy(GetStartTime(lifelogs[i]))
    /\ ~Parses(lifelogs[i])
    /\ pc' = "aborted"
    /\ error' = "ValueError"
    /\ UNCHANGED <<lifelogs, i, exists, fs, out, clock, run, logs1, fs1, moved>>

\* Lines 55-58 and 73-74: fromisoformat raises ValueError, which is caught
\* and printed; nothing is written for the lifelog.
ExportUnparseable ==
    /\ InLoop
    /\ Truthy(GetStartTime(lifelogs[i]))
    /\ ~Parses(lifelogs[i])
    /\ out' = Append(out, Line("Error", i, Len(lifelogs), "ValueError"))
    /\ i' = i + 1
    /\ UNCHANGED <<pc, lifelogs, exists, fs, clock, error, run, logs1, fs1, moved>>

\* Lines 75-87: no startTime (None or empty); the current time and the
\* index name the file, which is written.
ExportFallback ==
    /\ InLoop
    /\ ~Truthy(GetStartTime(lifelogs[i]))
    /\ LET filename == FallbackFileName(Clocks[clock], i)
       IN  /\ fs' = WriteFile(fs, filename, GetMarkdown(lifelogs[i]), "ok")
           /\ out' = Append(out, Line("NoTimestamp", i, Len(lifelogs), filename))
    /\ i' = i + 1
    /\ UNCHANGED <<pc, lifelogs, exists, clock, error, run, logs1, fs1, moved>>

\* Lines 84-85: the write raises OSError outside any try block; the
\* exception leaves export_data and main.
ExportFallbackFails ==
    /\ InLoop
    /\ ~Truthy(GetStartTime(lifelogs[i]))
    /\ LET filename == FallbackFileName(Clocks[clock], i)
       IN  \E outcome \in WriteOutcomes \ {"ok"} :
             fs' = WriteFile(fs, filename, GetMarkdown(lifelogs[i]), outcome)
    /\ pc' = "aborted"
    /\ error' = "OSError"
    /\ UNCHANGED <<lifelogs, i, exists, out, clock, run, logs1, fs1, moved>>

\* Line 51 exhausted, then main, line 104.
Complete ==
    /\ pc = "loop"
    /\ i = Len(lifelogs) + 1
    /\ out' = Append(out, Line("Complete", 0, 0, ""))
    /\ pc' = "done"
    /\ UNCHANGED <<lifelogs, i, exists, fs, clock, error, run, logs1, fs1, moved>>

\* The wall clock passes a second while the loop runs.
Tick ==
    /\ InLoop
    /\ clock < Len(Clocks)
    /\ clock' = clock + 1
    /\ UNCHANGED <<pc, lifelogs, i, exists, fs, out, error, run, logs1, fs1, moved>>

Next ==
    \/ Fetch
    \/ FetchFails
    \/ EnterExport
    \/ ExportTimestamped
    \/ ExportTimestampedFails
    \/ ExportUnparseable
    \/ ExportFallback
    \/ ExportFallbackFails
    \/ Complete
    \/ Tick

Spec == Init /\ [][Next]_vars

(***************************************************************************)
(* Two runs of the program.  After the first run has completed the program *)
(* is started again: the record source returns the same lifelogs, in the   *)
(* same or in another order, and the working directory is the same one or  *)
(* another one, which has no export directory.  No write fails.            *)
(***************************************************************************)
Reorderings(logs) ==
    { [k \in 1..Len(logs) |-> logs[p[k]]] : p \in Permutations(1..Len(logs)) }

RunAgain ==
    /\ pc = "done"
    /\ run = 1
    /\ Len(lifelogs) <= MaxRerun
    /\ run' = 2
    /\ logs1' = lifelogs
    /\ fs1' = fs
    /\ \E l \in Reorderings(lifelogs) : lifelogs' = l
    /\ \E m \in BOOLEAN :
         /\ moved' = m
         /\ exists' = IF m THEN FALSE ELSE exists
         /\ fs' = IF m THEN NoFiles ELSE fs
    /\ pc' = "export"
    /\ i' = 0
    /\ out' = <<Line("Fetching", 0, 0, "")>>
    /\ UNCHANGED <<clock, error>>

NextTwo ==
    \/ Fetch
    \/ EnterExport
    \/ ExportTimestamped
    \/ ExportUnparseable
    \/ ExportFallback
    \/ Complete
    \/ Tick
    \/ RunAgain

SpecTwo == Init /\ [][NextTwo]_vars

(***************************************************************************)
(* What the claims are checked against: the file names Python's datetime   *)
(* with the America/Chicago zone gives for the startTime texts and for the *)
(* clock readings of the model, written out.                               *)
(***************************************************************************)
ValidTexts ==
    { "2025-03-18T15:41:44-05:00", "2025-03-18T20:41:44+00:00",
      "2025-01-01T03:00:00+00:00" }
UnparseableTexts == { "not-a-date", "2025-13-01T00:00:00+00:00" }

ExpectedStamp(text) ==
    CASE text = "2025-03-18T15:41:44-05:00" -> "2025-03-18-15-41-44"
      [] text = "2025-03-18T20:41:44+00:00" -> "2025-03-18-15-41-44"
      [] text = "2025-01-01T03:00:00+00:00" -> "2024-12-31-21-00-00"

ExpectedNow == << "2024-12-31-21-00-00", "2024-12-31-21-00-01" >>

\* The text of the startTime of a lifelog; "None" when there is no such key.
TextOf(lifelog) == GetStartTime(lifelog).text
HasKey(lifelog, key) == key \in lifelog.keys
MarkdownOrEmpty(lifelog) ==
    IF HasKey(lifelog, "markdown") THEN lifelog.markdown ELSE ""

IsProgress(line) == line.kind \in {"Exported", "Error", "NoTimestamp"}
IsWritten(line) == line.kind \in {"Exported", "NoTimestamp"}
LastLine(lines) == lines[Len(lines)]
Overwritten(files, name, content) == (name :> content) @@ files

\* A step of the loop that leaves the record at position i behind.
LeavesRecord == i' /= i \/ pc' /= pc

\* C1: a record whose startTime is present but does not parse still gets
\* exactly one file, named from the current time with "-{i}.md" appended and
\* holding its markdown.
C1_UnparseableGetsFallbackFile ==
    pc = "done" =>
        \A k \in 1..Len(lifelogs) :
            (HasKey(lifelogs[k], "startTime") /\ TextOf(lifelogs[k]) \notin ValidTexts)
            => \E c \in 1..Len(ExpectedNow) :
                 LET name == ExpectedNow[c] \o "-" \o ToString(k) \o ".md"
                 IN  /\ name \in DOMAIN fs
                     /\ fs[name] = MarkdownOrEmpty(lifelogs[k])

\* C2: the step that handles a record with a parseable startTime either
\* writes the file named by the timestamp in America/Chicago, formatted
\* YYYY-MM-DD-HH-MM-SS plus ".md" with no index, holding the markdown (the
\* empty string when there is none) and leaving the other files alone, or
\* reports a failed write.
C2_TimestampedFile ==
    [][ (InLoop /\ HasKey(lifelogs[i], "startTime")
           /\ TextOf(lifelogs[i]) \in ValidTexts /\ LeavesRecord)
        => LET name == ExpectedStamp(TextOf(lifelogs[i])) \o ".md"
           IN  /\ i' = i + 1 /\ pc' = "loop"
               /\ \/ /\ LastLine(out') = Line("Exported", i, Len(lifelogs), name)
                     /\ fs' = Overwritten(fs, name, MarkdownOrEmpty(lifelogs[i]))
                  \/ LastLine(out') = Line("Error", i, Len(lifelogs), "OSError")
      ]_vars

C2_Witness ==
    /\ pc = "done"
    /\ \E k \in 1..Len(out) :
         /\ out[k].kind = "Exported"
         /\ TextOf(lifelogs[out[k].i]) = "2025-01-01T03:00:00+00:00"
         /\ out[k].text = "2024-12-31-21-00-00.md"
         /\ fs[out[k].text] = "World"
    /\ \E k \in 1..Len(out) :
         /\ out[k].kind = "Exported"
         /\ ~HasKey(lifelogs[out[k].i], "markdown")
         /\ fs[out[k].text] = ""

\* C3: the step that handles the record at position i with no startTime
\* either writes exactly one file, named from the current time in
\* America/Chicago with "-{i}.md" appended and holding the markdown (the empty
\* string when there is none), or ends the run with the write's error.
C3_FallbackFile ==
    [][ (InLoop /\ ~HasKey(lifelogs[i], "startTime") /\ LeavesRecord)
        => LET name == ExpectedNow[clock] \o "-" \o ToString(i) \o ".md"
           IN  \/ /\ i' = i + 1 /\ pc' = "loop"
                  /\ LastLine(out') = Line("NoTimestamp", i, Len(lifelogs), name)
                  /\ fs' = Overwritten(fs, name, MarkdownOrEmpty(lifelogs[i]))
               \/ /\ pc' = "aborted" /\ error' = "OSError"
      ]_vars

C3_Witness ==
    /\ pc = "done"
    /\ Len(lifelogs) = 2
    /\ lifelogs[2] = Lifelog({"markdown"}, NoneValue, "No time")
    /\ out[Len(out) - 1].kind = "NoTimestamp"
    /\ out[Len(out) - 1].text = "2024-12-31-21-00-01-2.md"
    /\ fs["2024-12-31-21-00-01-2.md"] = "No time"

\* C4: the progress lines are those of positions 1, 2, ... in order, one per
\* record handled; a completed run has handled all N records; and a record
\* whose startTime does not parse is left with the loop going on to the next.
C4_Order ==
    LET progress == SelectSeq(out, IsProgress)
    IN  /\ Len(progress) = (IF i = 0 THEN 0 ELSE i - 1)
        /\ \A k \in 1..Len(progress) :
             progress[k].i = k /\ progress[k].n = Len(lifelogs)
        /\ pc = "done" => Len(progress) = Len(lifelogs)

\* C4: every record is handled exactly once, in input order, and a parse
\* failure on one record does not stop the loop.
C4_EveryRecordOnceInOrder ==
    /\ []C4_Order
    /\ [][ (InLoop /\ TextOf(lifelogs[i]) \in UnparseableTexts /\ LeavesRecord)
           => (pc' = "loop" /\ i' = i + 1 /\ error' = "") ]_vars

C4_Witness ==
    /\ pc = "done"
    /\ Len(lifelogs) = 3
    /\ TextOf(lifelogs[1]) = "not-a-date"
    /\ \E k \in 1..Len(out) : out[k] = Line("Error", 1, 3, "ValueError")
    /\ \E k \in 1..Len(out) : out[k].i = 3 /\ out[k].kind = "Exported"

\* C5: after a completed run on a list in which no two records derive the
\* same timestamp file name (and no write failed), the number of files
\* written equals the number of records.
C5_CountInvariant ==
    ( /\ pc = "done"
      /\ \A k \in 1..Len(out) : out[k].text /= "OSError"
      /\ \A j, k \in 1..Len(lifelogs) :
           ( /\ j /= k
             /\ TextOf(lifelogs[j]) \in ValidTexts
             /\ TextOf(lifelogs[k]) \in ValidTexts )
           => ExpectedStamp(TextOf(lifelogs[j])) /= ExpectedStamp(TextOf(lifelogs[k])) )
    => Cardinality(DOMAIN fs) = Len(lifelogs)

\* C7: when the record source fails the run is over: export_data is never
\* entered, no export directory is created, no file is written and the
\* completion line is never printed.
C7_Aborted ==
    error \in FetchErrors =>
        /\ pc = "aborted"
        /\ i = 0
        /\ ~exists
        /\ fs = NoFiles
        /\ \A k \in 1..Len(out) : out[k].kind = "Fetching"

\* C7: a failed fetch leaves the run aborted, with nothing exported, for good.
C7_FetchFailureAborts ==
    /\ []C7_Aborted
    /\ [][error \notin FetchErrors]_vars

C7_Witness == pc = "aborted" /\ error = "TransportError" /\ Len(out) = 1

\* C8: after a failed write on a record no later record is handled and the
\* completion line is not printed.
C8_WriteErrorAborts ==
    \A k \in 1..Len(out) :
        (out[k].kind = "Error" /\ out[k].text = "OSError")
        => \A j \in (k + 1)..Len(out) : ~IsProgress(out[j]) /\ out[j].kind /= "Complete"

\* C10: within a run, a file written under a fallback name keeps its content
\* through every later step, and its name differs from the name every other
\* record of the run was written under.
C10_Names ==
    \A j, k \in 1..Len(out) :
        (j /= k /\ out[j].kind = "NoTimestamp" /\ IsWritten(out[k]))
        => out[j].text /= out[k].text

\* C10: fallback names are unique within the run and fallback files are
\* never overwritten by another record.
C10_FallbackNeverOverwritten ==
    /\ []C10_Names
    /\ [][ \A k \in 1..Len(out) :
             out[k].kind = "NoTimestamp"
             => /\ out[k].text \in DOMAIN fs'
                /\ fs'[out[k].text] = fs[out[k].text] ]_vars

C10_Witness ==
    /\ pc = "done"
    /\ clock = 1
    /\ \E j, k \in 1..Len(out) :
         /\ j < k
         /\ out[j].kind = "NoTimestamp" /\ out[k].kind = "NoTimestamp"
         /\ fs[out[j].text] /= fs[out[k].text]
    /\ \E k \in 1..Len(out) :
         out[k].kind = "Exported" /\ out[k].text = "2024-12-31-21-00-00.md"

\* A record that takes the fallback naming path: no startTime, or an empty one.
TakesFallback(lifelog) == ~HasKey(lifelog, "startTime") \/ TextOf(lifelog) = ""
NoFallback(logs) == \A k \in 1..Len(logs) : ~TakesFallback(logs[k])

\* No two records of the list derive the same timestamp file name.
NoSameName(logs) ==
    \A j, k \in 1..Len(logs) :
        (j /= k /\ TextOf(logs[j]) \in ValidTexts /\ TextOf(logs[k]) \in ValidTexts)
        => ExpectedStamp(TextOf(logs[j])) /= ExpectedStamp(TextOf(logs[k]))

SecondRunDone == run = 2 /\ pc = "done"

\* C6 as stated: a second run on the same list in the same directory leaves
\* the files and their contents as the first run left them, for any list and
\* any wall-clock times.
C6_Idempotent ==
    (SecondRunDone /\ ~moved /\ lifelogs = logs1) => fs = fs1

\* C6 as amended: the same, for lists in which no record takes the fallback
\* naming path, or when the clock reads the same second at every fallback
\* write of both runs (no write failing).
C6_IdempotentSameNames ==
    (SecondRunDone /\ ~moved /\ lifelogs = logs1 /\ (NoFallback(lifelogs) \/ clock = 1))
    => fs = fs1

C6_Witness ==
    /\ SecondRunDone /\ ~moved /\ lifelogs = logs1
    /\ NoFallback(lifelogs)
    /\ clock = 2
    /\ Cardinality(DOMAIN fs) = 1
    /\ \E k \in 1..Len(lifelogs) : TextOf(lifelogs[k]) = "not-a-date"

\* C9 as stated: with the same clock, a run on a reordering of the list in a
\* fresh directory ends with the same files and contents.
C9_OrderIndependent ==
    (SecondRunDone /\ moved /\ clock = 1) => fs = fs1

\* C9 as amended: the same, for lists in which no record takes the fallback
\* naming path and no two records derive the same file name (no write
\* failing).
C9_OrderIndependentDistinctNames ==
    (SecondRunDone /\ moved /\ NoFallback(lifelogs) /\ NoSameName(lifelogs))
    => fs = fs1

C9_Witness ==
    /\ SecondRunDone /\ moved
    /\ NoFallback(lifelogs) /\ NoSameName(lifelogs)
    /\ lifelogs /= logs1
    /\ Cardinality(DOMAIN fs) = 2
    /\ fs = fs1

====
